---- MODULE Spec2Model ----
(***************************************************************************)
(* Model of th_rs (src/src/main.rs): an interactive shell-history search.  *)
(* Strings are sequences of characters; a character is a one-character     *)
(* TLA+ string.  The program is single-threaded; pc is its position.       *)
(***************************************************************************)
EXTENDS Integers, Sequences, FiniteSets, TLC

VARIABLES
    pc,              \* position of the single thread in main / run_ui
    env,             \* process environment and file system (input, never written)
    commands,        \* Vec<String> returned by load_history
    frequency,       \* HashMap<String, usize>: command -> count
    iterOrder,       \* the order in which frequency.iter() yields the keys
    query,           \* run_ui: query
    selected_index,  \* run_ui: selected_index
    term_width,      \* run_ui loop local: term_width
    suggestions,     \* run_ui loop local: suggestions
    lastEvent,       \* what event::read() returned last: "none" before the first
                     \* read, "consumed" once the following iteration has begun
    rawMode,         \* terminal: raw mode enabled
    altScreen,       \* terminal: alternate screen entered
    cursorHidden,    \* terminal: cursor hidden
    frame,           \* run_ui loop: the frame this iteration has drawn
    before,          \* history: query and selected_index as the last event found
                     \* them, until the following iteration has begun
    roundTrip,       \* history of this iteration's event: stage 1 after a Char
                     \* (with the state it found), 2 after the Backspace next
                     \* to that Char, 3 after another Backspace, 0 otherwise
    output,          \* lines println! wrote to standard output
    result,          \* the io::Result<()> run_ui returned
    termLog,         \* history of the terminal calls made, oldest first
    exitStatus       \* what the process ended with

vars == << pc, env, commands, frequency, iterOrder, query, selected_index,
           term_width, suggestions, lastEvent, rawMode, altScreen,
           cursorHidden, frame, before, roundTrip, output, result, termLog,
           exitStatus >>

-----------------------------------------------------------------------------
(* Bounds of the model *)

MaxQueryLen == 2
MaxRot == 1

-----------------------------------------------------------------------------
(* Characters and strings *)

\* The characters of the model in ascending code-point order.
\* The last three are the Greek capital sigma, final small sigma and small sigma.
Sigma == "U+03A3"
FinalSigma == "U+03C2"
SmallSigma == "U+03C3"

CharOrder == << " ", "G", "L", "a", "c", "g", "i", "l", "m", "o", "s", "t", "u",
               Sigma, FinalSigma, SmallSigma >>

OrdOf == [c \in { CharOrder[i] : i \in 1..Len(CharOrder) } |->
            CHOOSE i \in 1..Len(CharOrder) : CharOrder[i] = c]

Ord(c) == OrdOf[c]

\* char::to_lowercase on the characters of the model.
LowerChar(c) == CASE c = "G" -> "g"
                  [] c = "L" -> "l"
                  [] c = Sigma -> SmallSigma
                  [] OTHER -> c

\* the Unicode property Cased: every character of the model but the space
\* (none of them is Case_Ignorable)
Cased(c) == c # " "

\* str::to_lowercase maps a capital sigma that ends a word (a cased letter
\* before it, none after it) to the final small sigma
map_uppercase_sigma(s, i) ==
    IF /\ i > 1 /\ Cased(s[i - 1])
       /\ ~(i < Len(s) /\ Cased(s[i + 1]))
    THEN FinalSigma ELSE SmallSigma

\* mutant: lowercasing character by character
to_lowercase_per_char(s) == [i \in 1..Len(s) |-> LowerChar(s[i])]

\* str::to_lowercase
to_lowercase(s) ==
    [i \in 1..Len(s) |->
        IF s[i] = Sigma THEN map_uppercase_sigma(s, i) ELSE LowerChar(s[i])]

\* str::contains(&str): some window of hay equals needle ("" is in every string)
contains(hay, needle) ==
    \E i \in 0..(Len(hay) - Len(needle)) :
        \A j \in 1..Len(needle) : hay[i + j] = needle[j]

\* Ord for String: lexicographic by code point, a proper prefix is less.
\* -1 = Less, 0 = Equal, 1 = Greater
RECURSIVE StrCmp(_, _)
StrCmp(s, t) ==
    IF s = << >> /\ t = << >> THEN 0
    ELSE IF s = << >> THEN -1
    ELSE IF t = << >> THEN 1
    ELSE IF Ord(Head(s)) < Ord(Head(t)) THEN -1
    ELSE IF Ord(Head(s)) > Ord(Head(t)) THEN 1
    ELSE StrCmp(Tail(s), Tail(t))

\* Ord for usize
NumCmp(a, b) == IF a < b THEN -1 ELSE IF a > b THEN 1 ELSE 0

\* str::trim for the one whitespace character of the model
RECURSIVE TrimStart(_)
TrimStart(s) == IF s # << >> /\ Head(s) = " " THEN TrimStart(Tail(s)) ELSE s

RECURSIVE TrimEnd(_)
TrimEnd(s) == IF s # << >> /\ s[Len(s)] = " "
              THEN TrimEnd(SubSeq(s, 1, Len(s) - 1)) ELSE s

trim(s) == TrimEnd(TrimStart(s))

\* s.chars().take(width).collect()
truncate_to_width(s, width) ==
    IF Len(s) <= width THEN s ELSE SubSeq(s, 1, width)

\* Display for usize: decimal digits, most significant first
Digit(d) == << "0", "1", "2", "3", "4", "5", "6", "7", "8", "9" >>[d + 1]

RECURSIVE FormatNum(_)
FormatNum(n) == IF n < 10 THEN << Digit(n) >>
                ELSE FormatNum(n \div 10) \o << Digit(n % 10) >>

-----------------------------------------------------------------------------
(* Inputs: the environment and the history file *)

NoVar == "<unset>"              \* env::var returned Err
InvalidLine == << "<not utf-8>" >>  \* a line for which reader.lines() yields Err
NoFile == << >>                 \* no file can be opened

GitStatus == << "g", "i", "t", " ", "s", "t", "a", "t", "u", "s" >>
GitCommit == << "g", "i", "t", " ", "c", "o", "m", "m", "i", "t" >>
Ls == << "l", "s" >>

\* 5 x "git status", 3 x "git commit", 5 x "ls", with blank and padded lines
FileScenario ==
    << GitStatus, Ls, GitCommit, GitStatus, << " ", " " >>, Ls, GitStatus,
       GitCommit, << " " >> \o Ls, GitStatus, Ls, GitCommit, GitStatus,
       Ls \o << " " >> >>

\* commands that differ in case only, a tie in the counts, an unreadable line,
\* commands with sigmas
FileCase ==
    << << "G", "i", "t" >>, << "g", "i", "t" >>, << "L", "s" >>, InvalidLine,
       Ls, << "g", "i", "t" >>, << "g", "u" >>, << "g", SmallSigma, "g" >>,
       << "g", Sigma >> >>

\* 17 distinct commands, 15 of them containing "g" or "G"
FileMany ==
    << << "g" >>, << "g", "i" >>, << "g", "i", "t" >>, << "g", "l" >>, Ls,
       << "g", "s" >>, << "g", "a" >>, << "c", "g" >>, << "g", "c" >>,
       << "g", "m" >>, << "L" >>, << "g", "o" >>, << "g", "t" >>,
       << "g", "u" >>, Ls, << "G", "i" >>, << "G" >>, << "a", "g" >>,
       << "c", "g" >>, << "g", "u" >>, << "L" >>, Ls >>

\* nothing but blank lines
FileBlank == << << " ", " " >>, << >> >>

Home == "/home/u"

BashHistory == ".bash_history"
ZshHistory == ".zsh_history"
FishHistory == ".local/share/fish/fish_history"

\* the environments the runs start from
Environments ==
    { [HOME |-> NoVar, SHELL |-> "/bin/bash", file |-> NoFile, lines |-> << >>],
      [HOME |-> Home, SHELL |-> NoVar, file |-> NoFile, lines |-> << >>],
      [HOME |-> Home, SHELL |-> "/bin/sh",
       file |-> << Home, BashHistory >>, lines |-> FileCase],
      [HOME |-> Home, SHELL |-> "/bin/zsh",
       file |-> << Home, BashHistory >>, lines |-> FileCase],
      [HOME |-> Home, SHELL |-> "/bin/bash",
       file |-> << Home, BashHistory >>, lines |-> FileScenario],
      [HOME |-> Home, SHELL |-> "/usr/bin/zsh",
       file |-> << Home, ZshHistory >>, lines |-> FileCase],
      [HOME |-> Home, SHELL |-> "/bin/fish",
       file |-> << Home, FishHistory >>, lines |-> FileMany],
      [HOME |-> Home, SHELL |-> "/usr/bin/bash",
       file |-> << Home, BashHistory >>, lines |-> FileBlank] }

\* the characters the user can type
TypedChars == { "g", "i", "G", Sigma }

\* the widths crossterm::terminal::size() can report
Widths == { 1, 40 }

-----------------------------------------------------------------------------
(* load_history *)

SupportedShells == { "/bin/bash", "/usr/bin/bash", "/bin/zsh", "/usr/bin/zsh",
                     "/usr/bin/fish", "/bin/fish" }

history_path(home_dir, shell) ==
    CASE shell \in { "/bin/bash", "/usr/bin/bash" } -> << home_dir, BashHistory >>
      [] shell \in { "/bin/zsh", "/usr/bin/zsh" } -> << home_dir, ZshHistory >>
      [] shell \in { "/usr/bin/fish", "/bin/fish" } -> << home_dir, FishHistory >>

\* lines 30-38: keep the trimmed, non-empty, readable lines in file order
RECURSIVE ReadCommands(_)
ReadCommands(lines) ==
    IF lines = << >> THEN << >>
    ELSE IF Head(lines) = InvalidLine THEN ReadCommands(Tail(lines))
    ELSE IF trim(Head(lines)) = << >> THEN ReadCommands(Tail(lines))
    ELSE << trim(Head(lines)) >> \o ReadCommands(Tail(lines))

\* mutant: a history file that cannot be opened is read as an empty one
LoadPanicIgnoresOpen(e) ==
    IF e.HOME = NoVar THEN "Could not determine HOME directory"
    ELSE IF e.SHELL = NoVar THEN "Could not determine SHELL"
    ELSE IF e.SHELL \notin SupportedShells THEN "Unsupported shell"
    ELSE ""

\* the panic message load_history ends with, or "" when it returns Ok
LoadPanic(e) ==
    IF e.HOME = NoVar THEN "Could not determine HOME directory"
    ELSE IF e.SHELL = NoVar THEN "Could not determine SHELL"
    ELSE IF e.SHELL \notin SupportedShells THEN "Unsupported shell"
    ELSE IF e.file # history_path(e.HOME, e.SHELL) THEN "Failed to open history file"
    ELSE ""

-----------------------------------------------------------------------------
(* build_frequency_map *)

EmptyMap == [k \in {} |-> 0]

\* mutant: freq.insert(cmd.clone(), 1)
EntryIncrementOverwrites(freq, cmd) ==
    [k \in DOMAIN freq \cup {cmd} |-> IF k = cmd THEN 1 ELSE freq[k]]

\* *freq.entry(cmd.clone()).or_insert(0) += 1
EntryIncrement(freq, cmd) ==
    [k \in DOMAIN freq \cup {cmd} |->
        IF k = cmd THEN (IF cmd \in DOMAIN freq THEN freq[cmd] ELSE 0) + 1
        ELSE freq[k]]

RECURSIVE FoldCommands(_, _)
FoldCommands(freq, cmds) ==
    IF cmds = << >> THEN freq
    ELSE FoldCommands(EntryIncrement(freq, Head(cmds)), Tail(cmds))

build_frequency_map(cmds) == FoldCommands(EmptyMap, cmds)

(* HashMap iteration order: unspecified, fixed while the map is unchanged.   *)
(* The orders of the model are the rotations by at most MaxRot of the keys   *)
(* in ascending order and of the keys in descending order.                   *)
RECURSIVE AscendingKeys(_)
AscendingKeys(keys) ==
    IF keys = {} THEN << >>
    ELSE LET m == CHOOSE x \in keys : \A y \in keys : StrCmp(x, y) <= 0
         IN  << m >> \o AscendingKeys(keys \ {m})

Reverse(s) == [i \in 1..Len(s) |-> s[Len(s) + 1 - i]]

Rotate(s, k) == [i \in 1..Len(s) |-> s[((i - 1 + k) % Len(s)) + 1]]

IterOrders(keys) ==
    LET asc == AscendingKeys(keys)
    IN  { Rotate(base, k) : base \in { asc, Reverse(asc) }, k \in 0..MaxRot }

-----------------------------------------------------------------------------
(* run_ui: the candidate list, lines 75-92 *)

\* line 84
max_suggestions == 10

\* mutant: the lowercased query has to end the lowercased command
MatchesAtEnd(cmd, q) ==
    LET hay == to_lowercase(cmd)
        needle == to_lowercase(q)
    IN  /\ Len(needle) <= Len(hay)
        /\ SubSeq(hay, Len(hay) - Len(needle) + 1, Len(hay)) = needle

\* line 77: the filter closure
Matches(cmd, q) == contains(to_lowercase(cmd), to_lowercase(q))

\* lines 75-79: the matching (cmd, count) pairs in iteration order
RECURSIVE Collect(_, _, _)
Collect(freq, order, q) ==
    IF order = << >> THEN << >>
    ELSE IF Matches(Head(order), q)
         THEN << << Head(order), freq[Head(order)] >> >> \o Collect(freq, Tail(order), q)
         ELSE Collect(freq, Tail(order), q)

\* mutant: the comparator without its tie-break
CompareCountOnly(a, b) == NumCmp(b[2], a[2])

\* line 81: the comparator, b.1.cmp(&a.1).then(a.0.cmp(&b.0))
Compare(a, b) ==
    IF NumCmp(b[2], a[2]) # 0 THEN NumCmp(b[2], a[2]) ELSE StrCmp(a[1], b[1])

\* Vec::sort_by is a stable sort: x goes behind every element not greater than it
RECURSIVE InsertStable(_, _)
InsertStable(sorted, x) ==
    IF sorted = << >> THEN << x >>
    ELSE IF Compare(sorted[Len(sorted)], x) <= 0 THEN Append(sorted, x)
    ELSE Append(InsertStable(SubSeq(sorted, 1, Len(sorted) - 1), x),
                sorted[Len(sorted)])

RECURSIVE SortFrom(_, _)
SortFrom(sorted, rest) ==
    IF rest = << >> THEN sorted
    ELSE SortFrom(InsertStable(sorted, Head(rest)), Tail(rest))

sort_by(v) == SortFrom(<< >>, v)

\* mutant: the cap keeps one entry too few
truncateOffByOne(v, n) == IF Len(v) >= n THEN SubSeq(v, 1, n - 1) ELSE v

\* lines 85-87
truncate(v, n) == IF Len(v) > n THEN SubSeq(v, 1, n) ELSE v

\* mutant: the cap is applied before the sort
RankCapFirst(freq, order, q) ==
    sort_by(truncate(Collect(freq, order, q), max_suggestions))

\* lines 75-87: filter, sort, cap
Rank(freq, order, q) == truncate(sort_by(Collect(freq, order, q)), max_suggestions)

\* usize::saturating_sub
saturating_sub(a, b) == IF a >= b THEN a - b ELSE 0

\* lines 90-92
Clamp(sel, len) == IF sel >= len THEN saturating_sub(len, 1) ELSE sel

-----------------------------------------------------------------------------
(* run_ui: the frame, lines 95-114 *)

Header ==
    << "T", "y", "p", "e", " ", "y", "o", "u", "r", " ", "s", "e", "a", "r",
       "c", "h", " ", "q", "u", "e", "r", "y", ".", " ", "U", "s", "e", " ",
       "U+2191", "/", "U+2193", " ", "t", "o", " ", "s", "e", "l", "e", "c",
       "t", ".", " ", "P", "r", "e", "s", "s", " ", "E", "n", "t", "e", "r",
       " ", "t", "o", " ", "c", "h", "o", "o", "s", "e", ".", " ", "(", "E",
       "s", "c", " ", "t", "o", " ", "e", "x", "i", "t", ")" >>

SearchLabel == << "S", "e", "a", "r", "c", "h", ":", " " >>

\* lines 107-111
\* mutant: the marker is drawn on the line after the selected one
SuggestionLineMarksNext(i, sel, entry) ==
    (IF i = sel + 1 THEN << ">", " " >> ELSE << " ", " " >>)
        \o entry[1] \o << " ", "(" >> \o FormatNum(entry[2]) \o << ")" >>

SuggestionLine(i, sel, entry) ==
    (IF i = sel THEN << ">", " " >> ELSE << " ", " " >>)
        \o entry[1] \o << " ", "(" >> \o FormatNum(entry[2]) \o << ")" >>

BlankFrame == [header |-> << >>, search |-> << >>, lines |-> << >>]

\* the screen after lines 95-114 ran to the end (positions are 0-based in the code)
RenderFrame(q, sel, sugg, width) ==
    [header |-> truncate_to_width(Header, width),
     search |-> truncate_to_width(SearchLabel \o q, width),
     lines  |-> [i \in 1..Len(sugg) |->
                    truncate_to_width(SuggestionLine(i - 1, sel, sugg[i]), width)]]

-----------------------------------------------------------------------------
(* Values *)

Running == [kind |-> "running", at |-> ""]
NoResult == [kind |-> "none", at |-> ""]
Ok == [kind |-> "Ok", at |-> ""]
Err(site) == [kind |-> "Err", at |-> site]
Panic(msg) == [kind |-> "panic", at |-> msg]

NoEvent == [kind |-> "none", ch |-> "", ctrl |-> FALSE]

NoSnapshot == [taken |-> FALSE, query |-> << >>, selected_index |-> 0]
NoTrip == [stage |-> 0, query |-> << >>, list |-> << >>, moved |-> FALSE]
Event(kind) == [kind |-> kind, ch |-> "", ctrl |-> FALSE]

Call(name, by, ok) == [call |-> name, by |-> by, ok |-> ok]

Init ==
    /\ pc = "load_history"
    /\ env \in Environments
    /\ commands = << >>
    /\ frequency = EmptyMap
    /\ iterOrder = << >>
    /\ query = << >>
    /\ selected_index = 0
    /\ term_width = 0
    /\ suggestions = << >>
    /\ lastEvent = NoEvent
    /\ before = NoSnapshot
    /\ roundTrip = NoTrip
    /\ rawMode = FALSE
    /\ altScreen = FALSE
    /\ cursorHidden = FALSE
    /\ frame = BlankFrame
    /\ output = << >>
    /\ result = NoResult
    /\ termLog = << >>
    /\ exitStatus = Running

terminal == << rawMode, altScreen, cursorHidden, termLog >>
index == << commands, frequency, iterOrder >>
locals == << query, selected_index, term_width, suggestions, frame, lastEvent,
            before, roundTrip >>

\* run_ui returns: its loop state goes out of scope
DropLocals ==
    /\ query' = << >>
    /\ selected_index' = 0
    /\ term_width' = 0
    /\ suggestions' = << >>
    /\ frame' = BlankFrame
    /\ before' = NoSnapshot
    /\ roundTrip' = NoTrip
    /\ UNCHANGED lastEvent

\* the ? operator: run_ui returns the error to main
ReturnErr(site) ==
    /\ pc' = "main_check"
    /\ result' = Err(site)
    /\ DropLocals

-----------------------------------------------------------------------------
(* Startup, lines 59-68 *)

\* line 59: load_history().expect(..); a panic unwinds through run_ui and main
LoadHistory ==
    /\ pc = "load_history"
    /\ IF LoadPanic(env) # ""
       THEN /\ pc' = "panicked"
            /\ exitStatus' = Panic(LoadPanic(env))
            /\ UNCHANGED commands
       ELSE /\ pc' = "build_frequency_map"
            /\ commands' = ReadCommands(env.lines)
            /\ UNCHANGED exitStatus
    /\ UNCHANGED << env, frequency, iterOrder, locals, terminal, output, result >>

\* lines 60-63
BuildFrequencyMap ==
    /\ pc = "build_frequency_map"
    /\ frequency' = build_frequency_map(commands)
    /\ iterOrder' \in IterOrders(DOMAIN frequency')
    /\ query' = << >>
    /\ selected_index' = 0
    /\ pc' = "enable_raw_mode"
    /\ UNCHANGED << env, commands, term_width, suggestions, frame, lastEvent,
                    before, roundTrip, terminal, output, result, exitStatus >>

\* line 66: enable_raw_mode()?
EnableRawMode ==
    /\ pc = "enable_raw_mode"
    /\ \E ok \in BOOLEAN :
        /\ termLog' = Append(termLog, Call("enable_raw_mode", "run_ui", ok))
        /\ IF ok
           THEN /\ rawMode' = TRUE
                /\ pc' = "enter_alternate_screen"
                /\ UNCHANGED << result, locals >>
           ELSE /\ UNCHANGED rawMode
                /\ ReturnErr("enable_raw_mode")
    /\ UNCHANGED << env, index, altScreen, cursorHidden, output, exitStatus >>

\* line 68: execute!(stdout, EnterAlternateScreen, Hide)?
\* On failure the first n of the two commands had reached the terminal.
EnterAlternateScreen ==
    /\ pc = "enter_alternate_screen"
    /\ \E ok \in BOOLEAN :
        /\ termLog' = Append(termLog, Call("EnterAlternateScreen", "run_ui", ok))
        /\ IF ok
           THEN /\ altScreen' = TRUE
                /\ cursorHidden' = TRUE
                /\ pc' = "size"
                /\ UNCHANGED << result, locals >>
           ELSE /\ \E n \in 0..1 : altScreen' = (n >= 1)
                /\ UNCHANGED cursorHidden
                /\ ReturnErr("enter_alternate_screen")
    /\ UNCHANGED << env, index, rawMode, output, exitStatus >>

-----------------------------------------------------------------------------
(* One iteration of the loop up to the read, lines 72-114 *)

\* line 72: crossterm::terminal::size()?
TerminalSize ==
    /\ pc = "size"
    /\ \E ok \in BOOLEAN :
        IF ok
        THEN /\ term_width' \in Widths
             /\ lastEvent' = IF lastEvent = NoEvent THEN NoEvent ELSE Event("consumed")
             /\ before' = NoSnapshot
             /\ UNCHANGED roundTrip
             /\ pc' = "rank"
             /\ UNCHANGED << query, selected_index, suggestions, frame, result >>
        ELSE ReturnErr("size")
    /\ UNCHANGED << env, index, terminal, output, exitStatus >>

\* lines 75-92: filter, sort, cap, then adjust selected_index
ComputeSuggestions ==
    /\ pc = "rank"
    /\ suggestions' = Rank(frequency, iterOrder, query)
    /\ selected_index' = Clamp(selected_index, Len(suggestions'))
    /\ pc' = "render"
    /\ UNCHANGED << env, index, query, term_width, frame, lastEvent, before,
                    roundTrip, terminal, output, result, exitStatus >>

\* lines 95-114: clear, header, search line, blank line, suggestions, flush;
\* any of the writes may fail
Render ==
    /\ pc = "render"
    /\ \E ok \in BOOLEAN :
        IF ok
        THEN /\ frame' = RenderFrame(query, selected_index, suggestions, term_width)
             /\ pc' = "read"
             /\ UNCHANGED << query, selected_index, term_width, suggestions,
                             lastEvent, before, roundTrip, result >>
        ELSE ReturnErr("render")
    /\ UNCHANGED << env, index, terminal, output, exitStatus >>

-----------------------------------------------------------------------------
(* The read and the match on the event, lines 117-173 *)

\* the loop body ends: term_width and suggestions go out of scope, and the
\* loop starts over at line 72
NextIteration(ev) ==
    /\ lastEvent' = ev
    /\ before' = [taken |-> TRUE, query |-> query, selected_index |-> selected_index]
    /\ roundTrip' =
         IF ev.kind = "Char"
         THEN [stage |-> 1, query |-> query, list |-> suggestions,
               moved |-> selected_index > 0]
         ELSE IF ev.kind = "Backspace" /\ roundTrip.stage = 1
         THEN [roundTrip EXCEPT !.stage = 2]
         ELSE IF ev.kind = "Backspace"
         THEN [NoTrip EXCEPT !.stage = 3]
         ELSE NoTrip
    /\ term_width' = 0
    /\ suggestions' = << >>
    /\ frame' = BlankFrame
    /\ pc' = "size"

\* line 117: event::read()? fails
ReadFail ==
    /\ pc = "read"
    /\ ReturnErr("read")
    /\ UNCHANGED << env, index, terminal, output, exitStatus >>

\* mutant: line 121 is missing
KeyCharKeepsIndex ==
    /\ pc = "read"
    /\ Len(query) < MaxQueryLen
    /\ \E c \in TypedChars, ctrl \in BOOLEAN :
        /\ query' = Append(query, c)
        /\ NextIteration([kind |-> "Char", ch |-> c, ctrl |-> ctrl])
    /\ UNCHANGED << env, index, selected_index, terminal, output, result,
                    exitStatus >>

\* lines 119-122. The pattern KeyEvent { code, .. } ignores modifiers and kind,
\* so Ctrl+c arrives here as Char('c') too.
KeyChar ==
    /\ pc = "read"
    /\ Len(query) < MaxQueryLen
    /\ \E c \in TypedChars, ctrl \in BOOLEAN :
        /\ query' = Append(query, c)
        /\ selected_index' = 0
        /\ NextIteration([kind |-> "Char", ch |-> c, ctrl |-> ctrl])
    /\ UNCHANGED << env, index, terminal, output, result, exitStatus >>

\* mutant: query.clear() in place of query.pop()
KeyBackspaceClears ==
    /\ pc = "read"
    /\ query' = << >>
    /\ selected_index' = 0
    /\ NextIteration(Event("Backspace"))
    /\ UNCHANGED << env, index, terminal, output, result, exitStatus >>

\* mutant: line 125 is missing
KeyBackspaceKeepsIndex ==
    /\ pc = "read"
    /\ query' = IF query = << >> THEN << >> ELSE SubSeq(query, 1, Len(query) - 1)
    /\ NextIteration(Event("Backspace"))
    /\ UNCHANGED << env, index, selected_index, terminal, output, result,
                    exitStatus >>

\* lines 123-126: String::pop removes the last char, if any
KeyBackspace ==
    /\ pc = "read"
    /\ query' = IF query = << >> THEN << >> ELSE SubSeq(query, 1, Len(query) - 1)
    /\ selected_index' = 0
    /\ NextIteration(Event("Backspace"))
    /\ UNCHANGED << env, index, terminal, output, result, exitStatus >>

\* mutant: Up on the first entry wraps to the last one
KeyUpWraps ==
    /\ pc = "read"
    /\ selected_index' = IF selected_index > 0 THEN selected_index - 1
                         ELSE IF Len(suggestions) > 0 THEN Len(suggestions) - 1
                         ELSE 0
    /\ NextIteration(Event("Up"))
    /\ UNCHANGED << env, index, query, terminal, output, result, exitStatus >>

\* lines 127-131
KeyUp ==
    /\ pc = "read"
    /\ selected_index' = IF selected_index > 0 THEN selected_index - 1
                         ELSE selected_index
    /\ NextIteration(Event("Up"))
    /\ UNCHANGED << env, index, query, terminal, output, result, exitStatus >>

\* mutant: the ceiling test of lines 133-135 is missing
DownTargetUnguarded(sel, len) == sel + 1

\* lines 132-136
DownTarget(sel, len) == IF sel + 1 < len THEN sel + 1 ELSE sel

KeyDown ==
    /\ pc = "read"
    /\ selected_index' = DownTarget(selected_index, Len(suggestions))
    /\ NextIteration(Event("Down"))
    /\ UNCHANGED << env, index, query, terminal, output, result, exitStatus >>

\* line 137: the Enter arm is entered
KeyEnter ==
    /\ pc = "read"
    /\ lastEvent' = Event("Enter")
    /\ roundTrip' = NoTrip
    /\ pc' = "enter_cleanup"
    /\ UNCHANGED << env, index, query, selected_index, term_width, suggestions,
                    frame, before, terminal, output, result, exitStatus >>

\* line 154: the Esc arm is entered
KeyEsc ==
    /\ pc = "read"
    /\ lastEvent' = Event("Esc")
    /\ roundTrip' = NoTrip
    /\ pc' = "esc_cleanup"
    /\ UNCHANGED << env, index, query, selected_index, term_width, suggestions,
                    frame, before, terminal, output, result, exitStatus >>

\* mutant: another key code leaves the loop through the Esc arm
KeyOtherQuits ==
    /\ pc = "read"
    /\ lastEvent' = Event("OtherKey")
    /\ roundTrip' = NoTrip
    /\ pc' = "esc_cleanup"
    /\ UNCHANGED << env, index, query, selected_index, term_width, suggestions,
                    frame, before, terminal, output, result, exitStatus >>

\* line 167: any other key code
KeyOther ==
    /\ pc = "read"
    /\ NextIteration(Event("OtherKey"))
    /\ UNCHANGED << env, index, query, selected_index, terminal, output, result,
                    exitStatus >>

\* lines 169-171
Resize ==
    /\ pc = "read"
    /\ NextIteration(Event("Resize"))
    /\ UNCHANGED << env, index, query, selected_index, terminal, output, result,
                    exitStatus >>

\* line 172: mouse, focus and paste events
EventOther ==
    /\ pc = "read"
    /\ NextIteration(Event("OtherEvent"))
    /\ UNCHANGED << env, index, query, selected_index, terminal, output, result,
                    exitStatus >>

-----------------------------------------------------------------------------
(* The Enter and Esc arms, lines 137-166 *)

\* lines 139-145 and 156-162:
\* execute!(stdout, Clear(All), MoveTo(0, 0), Show, LeaveAlternateScreen)?
\* On failure the first n of the four commands had reached the terminal.
LoopCleanup(next) ==
    /\ \E ok \in BOOLEAN :
        /\ termLog' = Append(termLog, Call("LeaveAlternateScreen", "run_ui", ok))
        /\ IF ok
           THEN /\ cursorHidden' = FALSE
                /\ altScreen' = FALSE
                /\ pc' = next
                /\ UNCHANGED << result, locals >>
           ELSE /\ \E n \in 0..3 :
                    cursorHidden' = IF n >= 3 THEN FALSE ELSE cursorHidden
                /\ UNCHANGED altScreen
                /\ ReturnErr("cleanup")
    /\ UNCHANGED << env, index, rawMode, output, exitStatus >>

\* mutant: the result of disable_raw_mode() is dropped instead of propagated
LoopDisableRawUnchecked(next) ==
    /\ \E ok \in BOOLEAN :
        /\ termLog' = Append(termLog, Call("disable_raw_mode", "run_ui", ok))
        /\ rawMode' = IF ok THEN FALSE ELSE rawMode
    /\ pc' = next
    /\ UNCHANGED << env, index, locals, altScreen, cursorHidden, output, result,
                    exitStatus >>

\* lines 146 and 163: disable_raw_mode()?
LoopDisableRaw(next) ==
    /\ \E ok \in BOOLEAN :
        /\ termLog' = Append(termLog, Call("disable_raw_mode", "run_ui", ok))
        /\ IF ok
           THEN /\ rawMode' = FALSE
                /\ pc' = next
                /\ UNCHANGED << result, locals >>
           ELSE /\ UNCHANGED rawMode
                /\ ReturnErr("disable_raw_mode")
    /\ UNCHANGED << env, index, altScreen, cursorHidden, output, exitStatus >>

\* println! panics when the write to standard output fails
Println(msg, next) ==
    /\ \E ok \in BOOLEAN :
        IF ok
        THEN /\ output' = Append(output, msg)
             /\ pc' = next
             /\ UNCHANGED exitStatus
        ELSE /\ pc' = "panicked"
             /\ exitStatus' = Panic("failed printing to stdout")
             /\ UNCHANGED output
    /\ UNCHANGED << env, index, locals, terminal, result >>

Selected(cmd) == [kind |-> "selected", cmd |-> cmd]
NoMatch == [kind |-> "no match", cmd |-> << >>]
Exited == [kind |-> "cancelled", cmd |-> << >>]

EnterCleanup == pc = "enter_cleanup" /\ LoopCleanup("enter_disable_raw")

EnterDisableRaw == pc = "enter_disable_raw" /\ LoopDisableRaw("enter_report")

\* mutant: the first suggestion is reported instead of the selected one
EnterReportFirst ==
    /\ pc = "enter_report"
    /\ IF suggestions # << >>
       THEN Println(Selected(suggestions[1][1]), "enter_return")
       ELSE Println(NoMatch, "enter_return")

\* lines 147-151; suggestions[selected_index] panics when out of range
EnterReport ==
    /\ pc = "enter_report"
    /\ IF suggestions # << >>
       THEN IF selected_index < Len(suggestions)
            THEN Println(Selected(suggestions[selected_index + 1][1]), "enter_return")
            ELSE /\ pc' = "panicked"
                 /\ exitStatus' = Panic("index out of bounds")
                 /\ UNCHANGED << env, index, locals, terminal, output, result >>
       ELSE Println(NoMatch, "enter_return")

\* lines 152 and 165: return Ok(())
ReturnOk ==
    /\ result' = Ok
    /\ pc' = "main_check"
    /\ DropLocals
    /\ UNCHANGED << env, index, terminal, output, exitStatus >>

EnterReturn == pc = "enter_return" /\ ReturnOk

EscCleanup == pc = "esc_cleanup" /\ LoopCleanup("esc_disable_raw")

EscDisableRaw == pc = "esc_disable_raw" /\ LoopDisableRaw("esc_report")

\* mutant: the Esc arm reports like the Enter arm
EscReportAsEnter ==
    /\ pc = "esc_report"
    /\ IF suggestions # << >>
       THEN Println(Selected(suggestions[selected_index + 1][1]), "esc_return")
       ELSE Println(NoMatch, "esc_return")

\* line 164
EscReport == pc = "esc_report" /\ Println(Exited, "esc_return")

EscReturn == pc = "esc_return" /\ ReturnOk

-----------------------------------------------------------------------------
(* main, lines 177-186 *)

\* mutant: main returns the result without the cleanup of lines 181-183
MainCheckSkipsCleanup ==
    /\ pc = "main_check"
    /\ pc' = "main_return"
    /\ UNCHANGED << env, index, locals, terminal, output, result, exitStatus >>

\* line 180
MainCheck ==
    /\ pc = "main_check"
    /\ pc' = IF result.kind = "Err" THEN "main_cleanup" ELSE "main_return"
    /\ UNCHANGED << env, index, locals, terminal, output, result, exitStatus >>

\* line 182: let _ = execute!(stdout, Show, LeaveAlternateScreen);
\* On failure the first n of the two commands had reached the terminal.
MainCleanup ==
    /\ pc = "main_cleanup"
    /\ \E ok \in BOOLEAN :
        /\ termLog' = Append(termLog, Call("LeaveAlternateScreen", "main", ok))
        /\ IF ok
           THEN /\ cursorHidden' = FALSE
                /\ altScreen' = FALSE
           ELSE /\ \E n \in 0..1 : cursorHidden' = IF n >= 1 THEN FALSE ELSE cursorHidden
                /\ UNCHANGED altScreen
    /\ pc' = "main_disable_raw"
    /\ UNCHANGED << env, index, locals, rawMode, output, result, exitStatus >>

\* mutant: line 183 is missing
MainDisableRawOmitted ==
    /\ pc = "main_disable_raw"
    /\ pc' = "main_return"
    /\ UNCHANGED << env, index, locals, terminal, output, result, exitStatus >>

\* line 183: let _ = disable_raw_mode();
MainDisableRaw ==
    /\ pc = "main_disable_raw"
    /\ \E ok \in BOOLEAN :
        /\ termLog' = Append(termLog, Call("disable_raw_mode", "main", ok))
        /\ rawMode' = IF ok THEN FALSE ELSE rawMode
    /\ pc' = "main_return"
    /\ UNCHANGED << env, index, locals, altScreen, cursorHidden, output,
                    result, exitStatus >>

\* line 185: main returns result, which becomes the status of the process
MainReturn ==
    /\ pc = "main_return"
    /\ exitStatus' = result
    /\ pc' = "exit"
    /\ UNCHANGED << env, index, locals, terminal, output, result >>

-----------------------------------------------------------------------------

Next ==
    \/ LoadHistory
    \/ BuildFrequencyMap
    \/ EnableRawMode
    \/ EnterAlternateScreen
    \/ TerminalSize
    \/ ComputeSuggestions
    \/ Render
    \/ ReadFail
    \/ KeyChar
    \/ KeyBackspace
    \/ KeyUp
    \/ KeyDown
    \/ KeyEnter
    \/ KeyEsc
    \/ KeyOther
    \/ Resize
    \/ EventOther
    \/ EnterCleanup
    \/ EnterDisableRaw
    \/ EnterReport
    \/ EnterReturn
    \/ EscCleanup
    \/ EscDisableRaw
    \/ EscReport
    \/ EscReturn
    \/ MainCheck
    \/ MainCleanup
    \/ MainDisableRaw
    \/ MainReturn

Spec == Init /\ [][Next]_vars

\* the steps of lines 137-166 and 180-185: what the program does by itself
\* once the Enter or the Esc arm is entered, without waiting for any input
ExitStep ==
    \/ EnterCleanup
    \/ EnterDisableRaw
    \/ EnterReport
    \/ EnterReturn
    \/ EscCleanup
    \/ EscDisableRaw
    \/ EscReport
    \/ EscReturn
    \/ MainCheck
    \/ MainCleanup
    \/ MainDisableRaw
    \/ MainReturn

\* the process keeps running on its way out: none of these steps blocks
FairSpec == Init /\ [][Next]_vars /\ WF_vars(ExitStep)

-----------------------------------------------------------------------------
(* Vocabulary of the properties *)

Max(a, b) == IF a >= b THEN a ELSE b
Min(a, b) == IF a <= b THEN a ELSE b

\* the Candidate List for the current Query
CandidateList == Rank(frequency, iterOrder, query)

\* positions at which the loop holds the list it computed in this iteration
ListStates == { "render", "read", "enter_cleanup", "enter_disable_raw",
                "enter_report", "enter_return", "esc_cleanup",
                "esc_disable_raw", "esc_report", "esc_return" }

\* positions after run_ui has returned or the process has ended
AfterRunUi == { "main_check", "main_cleanup", "main_disable_raw", "main_return",
                "exit", "panicked" }

Stopped == pc \in { "exit", "panicked" }

\* terminal setup has begun: enable_raw_mode is the first terminal call
SetupBegun == termLog # << >>

Calls(name) == { i \in 1..Len(termLog) : termLog[i].call = name }
CallsBy(name, by) == { i \in Calls(name) : termLog[i].by = by }
RunUiCalls == { i \in 1..Len(termLog) : termLog[i].by = "run_ui" }

\* C1: in every reachable state 0 <= selected_index < max(1, length of the
\* Candidate List for the current Query), so selected_index is a position of
\* the list whenever the list is non-empty.
SelectionIndexInvariant ==
    LET list == CandidateList
    IN  /\ 0 <= selected_index
        /\ selected_index < Max(1, Len(list))
        /\ (list # << >> => selected_index + 1 \in DOMAIN list)

\* C1 witness: down has stopped at the last position of a list filtered by a
\* non-empty query
SelectionAtCeilingAfterDown ==
    /\ pc = "size"
    /\ lastEvent.kind = "Down"
    /\ query # << >>
    /\ selected_index >= 1
    /\ selected_index = Len(CandidateList) - 1

\* the failing call a run_ui error site is logged under
SiteCall(site) ==
    CASE site = "enable_raw_mode" -> "enable_raw_mode"
      [] site = "enter_alternate_screen" -> "EnterAlternateScreen"
      [] site = "cleanup" -> "LeaveAlternateScreen"
      [] site = "disable_raw_mode" -> "disable_raw_mode"
      [] OTHER -> "not logged"

\* the error run_ui returned is the failure that ended it: when the failing
\* call is a logged one it is the last call run_ui made, otherwise (size,
\* render, read) every call run_ui made had succeeded
OriginalError ==
    LET last == termLog[CHOOSE i \in RunUiCalls : \A j \in RunUiCalls : j <= i]
    IN  IF SiteCall(result.at) = "not logged"
        THEN /\ result.at \in { "size", "render", "read" }
             /\ \A i \in RunUiCalls : termLog[i].ok
        ELSE ~last.ok /\ last.call = SiteCall(result.at)

\* C2: once terminal setup has begun, the program stops only after
\* LeaveAlternateScreen (with Show) and then disable_raw_mode have been
\* attempted; when run_ui returned an error, main made both attempts itself
\* and the process ends with that same error.
RestoreAttemptedBeforeStop ==
    (Stopped /\ SetupBegun) =>
        /\ \E i \in Calls("LeaveAlternateScreen") :
             \E j \in Calls("disable_raw_mode") : i < j
        /\ result.kind = "Err" =>
             /\ pc = "exit"
             /\ CallsBy("LeaveAlternateScreen", "main") # {}
             /\ CallsBy("disable_raw_mode", "main") # {}
             /\ exitStatus = result
             /\ OriginalError

\* C2 witness: a failed frame write ended the run, main restored the terminal
\* and the process returned the render error
RenderErrorRestored ==
    /\ pc = "exit"
    /\ exitStatus = Err("render")
    /\ ~altScreen
    /\ ~rawMode
    /\ CallsBy("LeaveAlternateScreen", "main") # {}

\* the number of times the restoration steps were executed in this run
LeaveCount == Cardinality(Calls("LeaveAlternateScreen"))
DisableCount == Cardinality(Calls("disable_raw_mode"))

\* C3 (as stated): on every exit after setup began, the restoration sequence
\* has been executed exactly once.
RestoredExactlyOnce ==
    (Stopped /\ SetupBegun) => (LeaveCount = 1 /\ DisableCount = 1)

\* C3 (amended): on every exit after setup began the restoration is executed
\* at least once and at most twice; exactly once on the Enter and Escape exits
\* and on errors of setup, size, render and read; when the in-loop cleanup
\* itself fails main repeats it: a failed execute! gives two leave attempts
\* and one disable, a failed disable_raw_mode gives two of each.
RestoredOnceOrRetried ==
    (Stopped /\ SetupBegun) =>
        IF result.kind = "Err" /\ result.at = "cleanup"
        THEN LeaveCount = 2 /\ DisableCount = 1
        ELSE IF result.kind = "Err" /\ result.at = "disable_raw_mode"
        THEN LeaveCount = 2 /\ DisableCount = 2
        ELSE LeaveCount = 1 /\ DisableCount = 1

\* C3 witness: disable_raw_mode failed in the Enter arm after the alternate
\* screen had been left, and main ran the restoration a second time
CleanupRepeatedByMain ==
    /\ pc = "exit"
    /\ lastEvent.kind = "Enter"
    /\ exitStatus = Err("disable_raw_mode")
    /\ LeaveCount = 2
    /\ DisableCount = 2

\* a fatal configuration error, read off the environment
FatalConfiguration ==
    \/ env.HOME = NoVar
    \/ env.SHELL = NoVar
    \/ env.SHELL \notin { "/bin/bash", "/usr/bin/bash", "/bin/zsh",
                          "/usr/bin/zsh", "/usr/bin/fish", "/bin/fish" }
    \/ env.file # << env.HOME,
                     IF env.SHELL \in { "/bin/bash", "/usr/bin/bash" } THEN BashHistory
                     ELSE IF env.SHELL \in { "/bin/zsh", "/usr/bin/zsh" } THEN ZshHistory
                     ELSE FishHistory >>

\* C4: in a run with a fatal configuration error the program never gets past
\* load_history: it ends in a panic, no terminal call is ever made (raw mode
\* never enabled, alternate screen never entered, no cleanup) and nothing is
\* reported.
FatalConfigBeforeTerminal ==
    FatalConfiguration =>
        /\ pc \in { "load_history", "panicked" }
        /\ pc = "panicked" => exitStatus.kind = "panic"
        /\ termLog = << >>
        /\ ~rawMode /\ ~altScreen /\ ~cursorHidden
        /\ frame = BlankFrame
        /\ output = << >>
        /\ result = NoResult

\* C4 witness: the history file of the shell cannot be opened and the process
\* has panicked
PanickedOnMissingHistory ==
    /\ pc = "panicked"
    /\ exitStatus = Panic("Failed to open history file")
    /\ env.SHELL = "/bin/zsh"

-----------------------------------------------------------------------------
(* The ranking, stated without the code's sort *)

\* cmd contains q as a substring once both are lowercased
ContainsIgnoringCase(cmd, q) ==
    \E i \in 1..(Len(cmd) - Len(q) + 1) :
        SubSeq(to_lowercase(cmd), i, i + Len(q) - 1) = to_lowercase(q)

MatchingSet(q) == { c \in DOMAIN frequency : ContainsIgnoringCase(c, q) }

\* a is before b in ascending text order: they agree up to a position where a
\* has ended or has the smaller character
TextLess(a, b) ==
    \E k \in 1..Len(b) :
        /\ k - 1 <= Len(a)
        /\ \A j \in 1..(k - 1) : a[j] = b[j]
        /\ (k > Len(a) \/ Ord(a[k]) < Ord(b[k]))

\* entry x ranks before entry y: count descending, then text ascending
RanksBefore(x, y) == x[2] > y[2] \/ (x[2] = y[2] /\ TextLess(x[1], y[1]))

Shown(list) == { list[i][1] : i \in 1..Len(list) }

\* list is the first max_suggestions of the set M ranked in full
IsTopOf(list, M) ==
    /\ \A i \in 1..Len(list) :
         list[i][1] \in M /\ list[i][2] = frequency[list[i][1]]
    /\ \A i, j \in 1..Len(list) : i < j => RanksBefore(list[i], list[j])
    /\ Len(list) = Min(max_suggestions, Cardinality(M))
    /\ \A c \in M \ Shown(list) :
         \A i \in 1..Len(list) : RanksBefore(list[i], << c, frequency[c] >>)

\* C5: for a non-empty query every suggestion is an entry of the index whose
\* lowercased text contains the lowercased query; with at most 10 matches all
\* of them are returned; with more, exactly the first 10 of all the matches
\* ranked by (count descending, text ascending).
RankFiltersThenCaps ==
    (pc \in ListStates /\ query # << >>) =>
        LET M == MatchingSet(query)
        IN  /\ IsTopOf(suggestions, M)
            /\ Cardinality(M) <= max_suggestions => Shown(suggestions) = M
            /\ Cardinality(M) > max_suggestions => Len(suggestions) = max_suggestions

\* C5 witness: more than 10 commands match the query "g" and 10 are listed
MoreThanTenMatches ==
    /\ pc = "read"
    /\ query = << "g" >>
    /\ Cardinality(MatchingSet(query)) > max_suggestions
    /\ Len(suggestions) = max_suggestions

\* C6: with the empty query the list is the first 10 of the whole index
\* ranked by (count descending, text ascending), of length min(10, number of
\* distinct commands), and the first iteration computes it for the empty
\* query with selected_index 0.
EmptyQueryListsTopOfIndex ==
    /\ (pc \in ListStates /\ query = << >>) =>
          /\ IsTopOf(suggestions, DOMAIN frequency)
          /\ Len(suggestions) = Min(10, Cardinality(DOMAIN frequency))
    /\ (pc \in { "size", "rank", "render", "read" } /\ lastEvent = NoEvent) =>
          query = << >> /\ selected_index = 0

\* C6 witness: the first frame is about to be drawn from an index of more than
\* 10 commands
FirstFrameOfLargeIndex ==
    /\ pc = "render"
    /\ lastEvent = NoEvent
    /\ Cardinality(DOMAIN frequency) > 10
    /\ Len(suggestions) = 10
    /\ selected_index = 0

\* every order in which the n keys can be iterated, for small n
KeyOrders(keys) ==
    { p \in [1..Cardinality(keys) -> keys] :
        \A i, j \in 1..Cardinality(keys) : p[i] = p[j] => i = j }

MaxPermuted == 4

OrdersCompared ==
    IterOrders(DOMAIN frequency)
        \cup (IF Cardinality(DOMAIN frequency) <= MaxPermuted
              THEN KeyOrders(DOMAIN frequency) ELSE {})

ScenarioIndex == (GitStatus :> 5) @@ (GitCommit :> 3) @@ (Ls :> 5)

\* C7: the list is strictly ordered by count descending, then text ascending,
\* and every other iteration order of the same index yields the same sequence;
\* the index {"git status": 5, "git commit": 3, "ls": 5} with the empty query
\* yields "git status", "ls", "git commit".
RankIgnoresIterationOrder ==
    pc \in { "render", "read" } =>
        /\ \A i \in 1..(Len(suggestions) - 1) :
             RanksBefore(suggestions[i], suggestions[i + 1])
        /\ \A o \in OrdersCompared : Rank(frequency, o, query) = suggestions
        /\ (frequency = ScenarioIndex /\ query = << >>) =>
             suggestions = << << GitStatus, 5 >>, << Ls, 5 >>, << GitCommit, 3 >> >>

\* C7 witness: the scenario index, iterated in an order that is not ascending,
\* has been ranked for the empty query
ScenarioRankedFromOtherOrder ==
    /\ pc = "read"
    /\ frequency = ScenarioIndex
    /\ query = << >>
    /\ iterOrder # AscendingKeys(DOMAIN frequency)
    /\ suggestions[2] = << Ls, 5 >>

-----------------------------------------------------------------------------
(* The terminating transitions *)

\* what Enter has to report for the Candidate List of the current Query
ExpectedReport(list) ==
    IF list # << >> THEN Selected(list[selected_index + 1][1]) ELSE NoMatch

\* the line of the frame at the selected position, and only that line, starts
\* with the selection marker
MarkerOnSelected ==
    \A i \in 1..Len(frame.lines) :
        (frame.lines[i][1] = ">") <=> (i = selected_index + 1)

\* C8 (as stated): whenever Enter is processed, the selected command (or "no
\* match" for an empty list) is reported, the index access is in range, and
\* the loop terminates successfully.
EnterAlwaysReports ==
    /\ exitStatus # Panic("index out of bounds")
    /\ pc = "enter_return" => output = << ExpectedReport(CandidateList) >>
    /\ (lastEvent.kind = "Enter" /\ pc \in AfterRunUi) =>
          /\ result = Ok
          /\ Len(output) = 1
          /\ output[1].kind \in { "selected", "no match" }

\* C8 (amended): when Enter is processed the index access is always in range
\* and the entry at selected_index is the one the frame marks; if the in-loop
\* cleanup succeeds, exactly the command at selected_index of the Candidate
\* List for the current Query is reported ("no match" for an empty list) and
\* run_ui returns Ok, unless the write of the message fails and println!
\* panics; if the cleanup fails, nothing is reported and run_ui returns that
\* error.
EnterReportsSelection ==
    /\ exitStatus # Panic("index out of bounds")
    /\ pc = "enter_cleanup" =>
          /\ suggestions = CandidateList
          /\ suggestions # << >> => selected_index + 1 \in DOMAIN suggestions
          /\ Len(frame.lines) = Len(suggestions)
          /\ MarkerOnSelected
    /\ pc = "enter_return" => output = << ExpectedReport(CandidateList) >>
    /\ (lastEvent.kind = "Enter" /\ pc \in AfterRunUi) =>
          \/ /\ result = Ok
             /\ Len(output) = 1
             /\ output[1].kind \in { "selected", "no match" }
          \/ /\ result.kind = "Err"
             /\ result.at \in { "cleanup", "disable_raw_mode" }
             /\ output = << >>
          \/ /\ pc = "panicked"
             /\ exitStatus = Panic("failed printing to stdout")
             /\ result = NoResult
             /\ output = << >>

\* C8 witness: Enter has reported the entry at a position below the top of a
\* list filtered by a non-empty query
EnterReportedLowerEntry ==
    /\ pc = "enter_return"
    /\ query # << >>
    /\ selected_index >= 1
    /\ output = << Selected(suggestions[selected_index + 1][1]) >>

\* C9: an outcome message is written only after run_ui has left the alternate
\* screen and then disabled raw mode, both with success, and when either step
\* of the in-loop restoration fails no outcome message is written.
RestoreBeforeReport ==
    /\ output # << >> =>
          /\ ~altScreen /\ ~rawMode /\ ~cursorHidden
          /\ \E i \in CallsBy("LeaveAlternateScreen", "run_ui") :
               \E j \in CallsBy("disable_raw_mode", "run_ui") :
                  i < j /\ termLog[i].ok /\ termLog[j].ok
    /\ (\E i \in RunUiCalls :
           /\ ~termLog[i].ok
           /\ termLog[i].call \in { "LeaveAlternateScreen", "disable_raw_mode" })
          => output = << >>

\* C9 witness: "no match" has been written in the Enter arm with the terminal
\* back in its normal mode
NoMatchWrittenAfterRestore ==
    /\ pc = "enter_return"
    /\ output = << NoMatch >>
    /\ ~altScreen
    /\ ~rawMode

\* C10 (as stated): whenever Escape is processed, the loop terminates with the
\* "cancelled" outcome, exits successfully and reports no command.
EscapeAlwaysCancels ==
    /\ pc = "esc_return" => output = << Exited >>
    /\ (lastEvent.kind = "Esc" /\ pc \in AfterRunUi) =>
          /\ result = Ok
          /\ output = << Exited >>

\* C10 (amended): when Escape is processed, whatever the Query, Candidate List
\* and Selection Index are, no command is ever reported as chosen; if the
\* in-loop cleanup succeeds the "cancelled" outcome is reported and run_ui
\* returns Ok, unless the write of the message fails and println! panics; if
\* the cleanup fails, nothing is reported and run_ui returns that error.
EscapeCancels ==
    /\ lastEvent.kind = "Esc" =>
          \A i \in 1..Len(output) : output[i].kind # "selected"
    /\ pc = "esc_return" => output = << Exited >>
    /\ (lastEvent.kind = "Esc" /\ pc \in AfterRunUi) =>
          \/ /\ result = Ok
             /\ output = << Exited >>
          \/ /\ result.kind = "Err"
             /\ result.at \in { "cleanup", "disable_raw_mode" }
             /\ output = << >>
          \/ /\ pc = "panicked"
             /\ exitStatus = Panic("failed printing to stdout")
             /\ result = NoResult
             /\ output = << >>

\* C10 witness: Escape has been answered with "cancelled" while a non-empty
\* query was typed and an entry below the top was selected
EscapeCancelledWithSelection ==
    /\ pc = "esc_return"
    /\ query # << >>
    /\ selected_index >= 1
    /\ suggestions # << >>
    /\ output = << Exited >>

\* the text without its last character; the empty text stays empty
Front(s) == IF s = << >> THEN << >> ELSE SubSeq(s, 1, Len(s) - 1)

\* C11: a character key appends exactly that character to the Query and sets
\* the Selection Index to 0; Backspace removes the last character of the Query
\* (an empty Query stays empty) and sets the Selection Index to 0; the frame
\* drawn after either event is drawn with Selection Index 0.
QueryEditsResetSelection ==
    /\ (before.taken /\ lastEvent.kind = "Char") =>
          /\ query = Append(before.query, lastEvent.ch)
          /\ selected_index = 0
    /\ (before.taken /\ lastEvent.kind = "Backspace") =>
          /\ query = Front(before.query)
          /\ selected_index = 0
    /\ roundTrip.stage > 0 =>
          /\ selected_index = 0
          /\ pc = "read" =>
                /\ frame = RenderFrame(query, 0, suggestions, term_width)
                /\ \A i \in 1..Len(frame.lines) :
                      (frame.lines[i][1] = ">") <=> (i = 1)

\* C11 witness: a frame with several entries has been drawn after a character
\* was typed while an entry below the top was selected
FrameAfterCharOnLowerEntry ==
    /\ pc = "read"
    /\ roundTrip.stage = 1
    /\ roundTrip.moved
    /\ query = Append(roundTrip.query, "g")
    /\ Len(frame.lines) >= 2
    /\ frame.lines[1][1] = ">"

\* C12: Up decrements the Selection Index by 1 unless it is 0, where it stays;
\* Down increments it by 1 unless it is already the last position of the
\* Candidate List or the list is empty, where it stays; neither wraps and
\* neither changes the Query.
MovementSaturates ==
    before.taken =>
        LET len == Len(Rank(frequency, iterOrder, before.query))
            old == before.selected_index
        IN /\ lastEvent.kind = "Up" =>
                /\ selected_index = IF old = 0 THEN 0 ELSE old - 1
                /\ query = before.query
           /\ lastEvent.kind = "Down" =>
                /\ selected_index = IF len = 0 \/ old = len - 1 THEN old
                                     ELSE old + 1
                /\ selected_index >= old
                /\ selected_index <= Max(len - 1, 0)
                /\ query = before.query

\* C12 witness: Down was pressed on the last entry of a 3-item list and the
\* Selection Index is still 2
DownPastEndOfThreeItems ==
    /\ pc = "size"
    /\ lastEvent.kind = "Down"
    /\ before.selected_index = 2
    /\ selected_index = 2
    /\ Len(CandidateList) = 3

\* a key event that is not plain printable input: a character key pressed
\* together with a modifier such as Control
ModifiedChar(ev) == ev.kind = "Char" /\ ev.ctrl

\* C13: a resize notification and any event that is not a printable
\* character, Backspace, Up, Down, Enter or Escape (other key codes, key
\* events that are not plain printable input, mouse, focus and paste events)
\* leaves the Query and the Selection Index unchanged and does not end the
\* loop: the next iteration starts with the viewport size.
UnhandledEventsChangeNothing ==
    (/\ before.taken
     /\ \/ lastEvent.kind \in { "Resize", "OtherKey", "OtherEvent" }
        \/ ModifiedChar(lastEvent)) =>
        /\ query = before.query
        /\ selected_index = before.selected_index
        /\ pc = "size"

\* the candidate lines of the frame that carry the selection marker
MarkedLines == { i \in 1..Len(frame.lines) : frame.lines[i][1] = ">" }

\* the text of a candidate line before it is cut to the viewport width
LineText(marked, entry) ==
    << (IF marked THEN ">" ELSE " "), " " >>
        \o entry[1] \o << " ", "(" >> \o FormatNum(entry[2]) \o << ")" >>

ExitKeyDelivered == lastEvent.kind \in { "Enter", "Esc" }

\* a terminal call, the size query, the frame write, the event read or the
\* write of the result has failed
IOFailed ==
    \/ \E i \in 1..Len(termLog) : ~termLog[i].ok
    \/ result.kind = "Err"
    \/ pc = "panicked"

InLoop == pc \in { "size", "rank", "render", "read" }

\* the loop has been left
LoopLeft == SetupBegun /\ ~InLoop /\ pc # "enter_alternate_screen"

TerminalRestored == ~rawMode /\ ~altScreen /\ ~cursorHidden

\* C15, safety: the loop is left only by Enter, Escape or an I/O failure;
\* after a character, Backspace, Up, Down, resize or ignored event the loop is
\* still running with the terminal in raw mode on the alternate screen.
LoopRunsUntilExitKeyOrFailure ==
    /\ LoopLeft => (ExitKeyDelivered \/ IOFailed)
    /\ InLoop => (rawMode /\ altScreen)
    /\ (before.taken /\ ~ExitKeyDelivered) => (pc = "size" /\ rawMode /\ altScreen)

\* C15: the loop has no exit other than Enter, Escape or an I/O failure, and in
\* a run without I/O failure in which Enter or Escape is delivered the loop
\* eventually terminates with the terminal restored.
LoopEndsOnExitKey ==
    /\ []LoopRunsUntilExitKeyOrFailure
    /\ ExitKeyDelivered ~>
          (IOFailed \/ (pc = "exit" /\ result = Ok /\ TerminalRestored))

\* C15 witness: after a Query was typed Enter has ended the loop without any
\* failure and the terminal is restored
EnterEndedLoopRestored ==
    /\ pc = "enter_return"
    /\ lastEvent.kind = "Enter"
    /\ query # << >>
    /\ ~IOFailed
    /\ TerminalRestored

\* the positions of the history list that hold cmd
Occurrences(cmd) == { i \in 1..Len(commands) : commands[i] = cmd }

RECURSIVE SumCounts(_, _)
SumCounts(freq, keys) ==
    IF keys = {} THEN 0
    ELSE LET k == CHOOSE x \in keys : TRUE
         IN  freq[k] + SumCounts(freq, keys \ {k})

\* build_frequency_map has returned
IndexBuilt == pc \notin { "load_history", "build_frequency_map" }

\* C16, in a state: the keys of the Frequency Index are the distinct commands
\* of the history list and each is mapped to its number of occurrences
IndexCountsOccurrences ==
    IndexBuilt =>
        /\ DOMAIN frequency = { commands[i] : i \in 1..Len(commands) }
        /\ \A k \in DOMAIN frequency :
              /\ frequency[k] = Cardinality(Occurrences(k))
              /\ frequency[k] >= 1
        /\ SumCounts(frequency, DOMAIN frequency) = Len(commands)

\* C16: the Frequency Index built from a history list has exactly the distinct
\* commands of the list as keys, maps each to the number of times it occurs
\* (so every count is at least 1 and the counts sum to the length of the
\* list), and no loop transition modifies it afterwards.
FrequencyIndexBuiltOnce ==
    /\ []IndexCountsOccurrences
    /\ [][IndexBuilt => UNCHANGED << commands, frequency >>]_vars

\* C16 witness: the loop has handled an event over an index built from a
\* history in which commands repeat
IndexOfRepeatedCommandsInLoop ==
    /\ pc = "read"
    /\ query # << >>
    /\ \E k \in DOMAIN frequency : frequency[k] >= 3
    /\ Cardinality(DOMAIN frequency) < Len(commands)

\* C17: the clamp of lines 90-92 never changes the Selection Index: the value
\* that arrives at it is already below max(1, length of the Candidate List),
\* because the index is immutable and every change of the Query resets the
\* Selection Index to 0.
ClampNeverChangesSelection ==
    /\ [](pc = "rank" => selected_index < Max(1, Len(CandidateList)))
    /\ [][pc = "rank" =>
            /\ selected_index' = selected_index
            /\ selected_index < Max(1, Len(suggestions'))]_vars

\* C17 witness: the clamp has run on a list that a typed character made
\* shorter than the position that was selected before
ClampPassedAfterListShrank ==
    /\ pc = "render"
    /\ roundTrip.stage = 1
    /\ roundTrip.moved
    /\ Len(suggestions) < Len(roundTrip.list)
    /\ Len(suggestions) <= 1
    /\ selected_index = 0

\* the commands of the index that the filter of line 77 keeps for query q
Matching(q) == { cmd \in DOMAIN frequency : Matches(cmd, q) }

\* the lowercased q followed by c begins with the lowercased q
LowercaseExtends(q, c) ==
    SubSeq(to_lowercase(Append(q, c)), 1, Len(q)) = to_lowercase(q)

\* C18 (as stated): for every index, query q and character c the commands
\* that match q followed by c are among those that match q, and a Backspace
\* never removes a command from the matching set.
NarrowingNeverAddsMatches ==
    IndexBuilt =>
        /\ \A c \in TypedChars : Matching(Append(query, c)) \subseteq Matching(query)
        /\ (before.taken /\ lastEvent.kind = "Char") =>
              Matching(query) \subseteq Matching(before.query)
        /\ (before.taken /\ lastEvent.kind = "Backspace") =>
              Matching(before.query) \subseteq Matching(query)

\* C18 (amended): the commands that match q followed by c are among those that
\* match q whenever the lowercased q followed by c begins with the lowercased
\* q, and a Backspace that removes c from q followed by c never removes a
\* command from the matching set under the same condition.
NarrowingWhenLowercaseExtends ==
    IndexBuilt =>
        /\ \A c \in TypedChars :
              LowercaseExtends(query, c) =>
                  Matching(Append(query, c)) \subseteq Matching(query)
        /\ (before.taken /\ lastEvent.kind = "Char"
                /\ LowercaseExtends(before.query, lastEvent.ch)) =>
              Matching(query) \subseteq Matching(before.query)
        /\ (before.taken /\ lastEvent.kind = "Backspace" /\ before.query # << >>
                /\ LowercaseExtends(query, before.query[Len(before.query)])) =>
              Matching(before.query) \subseteq Matching(query)

\* C18 witness: a character typed after a non-empty Query has narrowed a
\* matching set to a smaller non-empty one
TypedCharNarrowedMatches ==
    /\ pc = "size"
    /\ lastEvent.kind = "Char"
    /\ before.query # << >>
    /\ LowercaseExtends(before.query, lastEvent.ch)
    /\ Matching(query) # { }
    /\ Matching(query) # Matching(before.query)

\* C19: a character followed by Backspace is a round trip on the Query: the
\* Query is again the one the character found, the Candidate List equals the
\* one before, and the Selection Index is 0 whatever it was before.
CharThenBackspaceRoundTrip ==
    roundTrip.stage = 2 =>
        /\ query = roundTrip.query
        /\ selected_index = 0
        /\ pc \in ListStates => suggestions = roundTrip.list
        /\ pc = "read" =>
              frame = RenderFrame(roundTrip.query, 0, roundTrip.list, term_width)

\* C19 witness: a character and a Backspace were entered while an entry below
\* the top of the list for a non-empty Query was selected, and the list for
\* that Query is drawn again
RoundTripFromLowerEntry ==
    /\ pc = "read"
    /\ roundTrip.stage = 2
    /\ roundTrip.moved
    /\ roundTrip.query # << >>
    /\ Len(suggestions) >= 2
    /\ suggestions = roundTrip.list

====
